---- MODULE Spec2Model ----
(***************************************************************************)
(* A model of the R-tree of src/src/rtree: Rectangle, RTreeNode, RTree and *)
(* the demonstration driver rtree_main.py.                                 *)
(*                                                                         *)
(* Nodes live in an arena: `nodes` is a sequence of node records and a     *)
(* node reference is an index into it (None = 0 is the absent reference).  *)
(* Coordinates are integers (every one of them is an exact float), so      *)
(* areas and enlargements are exact.  A distance is represented by its     *)
(* square: sqrt is strictly increasing, so order and equality of distances *)
(* are those of the squares.                                               *)
(***************************************************************************)
EXTENDS Integers, Sequences, FiniteSets, TLC

\* ------------------------------------------------------------------ bounds

\* Number of RTree.insert calls a run makes (after the driver's seeding, if any).
MaxInserts == 5

\* The (x, y, data) arguments a caller passes to RTree.insert.
Inputs ==
    { <<1, 2, "p">>, <<1, 2, "q">>, <<0, 5, "p">>, <<8, 8, "r">> }

\* The capacities a tree is constructed with.
MaxEntriesSet == {3, 4}

\* ------------------------------------------------------------------ Rectangle

None == 0

Min(a, b) == IF a < b THEN a ELSE b

Max(a, b) == IF a > b THEN a ELSE b

Rectangle(x1, y1, x2, y2) ==
    [x_min |-> x1, y_min |-> y1, x_max |-> x2, y_max |-> y2]

area(r) == (r.x_max - r.x_min) * (r.y_max - r.y_min)

\* union that keeps its own x_min.
union_keeping_x_min(r, other) ==
    Rectangle(r.x_min, Min(r.y_min, other.y_min),
              Max(r.x_max, other.x_max), Max(r.y_max, other.y_max))

union(r, other) ==
    Rectangle(Min(r.x_min, other.x_min), Min(r.y_min, other.y_min),
              Max(r.x_max, other.x_max), Max(r.y_max, other.y_max))

\* enlargement_needed that subtracts the area of the other rectangle.
enlargement_needed_of_other(r, other) == area(union(r, other)) - area(other)

enlargement_needed(r, other) == area(union(r, other)) - area(r)

\* intersects with the two tests on the y axis left out.
intersects_x_only(r, other) ==
    ~ (\/ r.x_max < other.x_min
       \/ r.x_min > other.x_max)

\* intersects with open intervals: rectangles that only touch are separated.
intersects_open(r, other) ==
    ~ (\/ r.x_max <= other.x_min
       \/ r.x_min >= other.x_max
       \/ r.y_max <= other.y_min
       \/ r.y_min >= other.y_max)

intersects(r, other) ==
    ~ (\/ r.x_max < other.x_min
       \/ r.x_min > other.x_max
       \/ r.y_max < other.y_min
       \/ r.y_min > other.y_max)

contains_point(r, x, y) ==
    /\ r.x_min <= x /\ x <= r.x_max
    /\ r.y_min <= y /\ y <= r.y_max

\* min_distance_to_point without the 0.0 among the arguments of max.
min_distance_without_zero(r, x, y) ==
    LET dx == Max(r.x_min - x, x - r.x_max)
        dy == Max(r.y_min - y, y - r.y_max)
    IN  dx * dx + dy * dy

\* The square of Rectangle.min_distance_to_point.
min_distance_to_point(r, x, y) ==
    LET dx == Max(Max(r.x_min - x, 0), x - r.x_max)
        dy == Max(Max(r.y_min - y, 0), y - r.y_max)
    IN  dx * dx + dy * dy

\* ------------------------------------------------------------------ RTreeNode

RTreeNode(is_leaf, max_entries_) ==
    [is_leaf |-> is_leaf, entries |-> << >>, parent |-> None,
     max_entries |-> max_entries_, min_entries |-> max_entries_ \div 2]

Entry(rect, data) == [mbr |-> rect, data |-> data]

RECURSIVE UnionFrom(_, _, _)
UnionFrom(entries, i, result) ==
    IF i > Len(entries) THEN result
    ELSE UnionFrom(entries, i + 1, union(result, entries[i].mbr))

\* RTreeNode.mbr of a node that has entries (None for a node without).
mbr(node) ==
    IF node.entries = << >> THEN None
    ELSE UnionFrom(node.entries, 2, node.entries[1].mbr)

\* is_full with the threshold one entry too high.
is_full_late(node) == Len(node.entries) > node.max_entries + 1

\* is_full that already holds at max_entries entries.
is_full_early(node) == Len(node.entries) >= node.max_entries

is_full(node) == Len(node.entries) > node.max_entries

\* The loop of choose_subtree without the tie-break on area: the first child of
\* least enlargement.
RECURSIVE BestChild_first_least(_, _, _, _, _, _)
BestChild_first_least(entries, i, new_mbr, best_child, min_enlargement, min_area) ==
    IF i > Len(entries) THEN best_child
    ELSE LET enlargement == enlargement_needed(entries[i].mbr, new_mbr)
             a == area(entries[i].mbr)
         IN  IF best_child = None \/ enlargement < min_enlargement
             THEN BestChild_first_least(entries, i + 1, new_mbr, entries[i].data,
                                        enlargement, a)
             ELSE BestChild_first_least(entries, i + 1, new_mbr, best_child,
                                        min_enlargement, min_area)

\* The loop of choose_subtree: best is None exactly while min_enlargement is inf.
RECURSIVE BestChild(_, _, _, _, _, _)
BestChild(entries, i, new_mbr, best_child, min_enlargement, min_area) ==
    IF i > Len(entries) THEN best_child
    ELSE LET enlargement == enlargement_needed(entries[i].mbr, new_mbr)
             a == area(entries[i].mbr)
         IN  IF \/ best_child = None
                \/ enlargement < min_enlargement
                \/ (enlargement = min_enlargement /\ a < min_area)
             THEN BestChild(entries, i + 1, new_mbr, entries[i].data, enlargement, a)
             ELSE BestChild(entries, i + 1, new_mbr, best_child,
                            min_enlargement, min_area)

\* The leaf chosen for new_mbr below node n; None when the ValueError is raised.
RECURSIVE choose_subtree(_, _, _)
choose_subtree(ns, n, new_mbr) ==
    IF ns[n].is_leaf THEN n
    ELSE LET best_child == BestChild(ns[n].entries, 1, new_mbr, None, 0, 0)
         IN  IF best_child = None THEN None
             ELSE choose_subtree(ns, best_child, new_mbr)

\* add_entry that refuses a node already holding max_entries entries.
add_entry_checked(ns, n, rect, data) ==
    IF Len(ns[n].entries) >= ns[n].max_entries THEN ns
    ELSE [ns EXCEPT ![n].entries = Append(@, Entry(rect, data))]

add_entry(ns, n, rect, data) ==
    [ns EXCEPT ![n].entries = Append(@, Entry(rect, data))]

\* Seed selection of quadratic_split: the first pair (i, j), i < j, of greatest
\* waste; <<1, 2>> (the code's 0, 1) when no waste exceeds -1.
RECURSIVE SeedScan(_, _, _, _, _)
SeedScan(entries, i, j, max_waste, seeds) ==
    IF i > Len(entries) THEN seeds
    ELSE IF j > Len(entries) THEN SeedScan(entries, i + 1, i + 2, max_waste, seeds)
    ELSE LET mbr1 == entries[i].mbr
             mbr2 == entries[j].mbr
             waste == area(union(mbr1, mbr2)) - area(mbr1) - area(mbr2)
         IN  IF waste > max_waste
             THEN SeedScan(entries, i, j + 1, waste, <<i, j>>)
             ELSE SeedScan(entries, i, j + 1, max_waste, seeds)

PickSeeds(entries) == SeedScan(entries, 1, 2, -1, <<1, 2>>)

\* The scan of one distribution step with equal enlargements sent to group 1.
RECURSIVE PickNext_tie_to_1(_, _, _, _, _, _)
PickNext_tie_to_1(remaining, i, group1_mbr, group2_mbr, max_diff, best) ==
    IF i > Len(remaining) THEN best
    ELSE LET enlarge1 == enlargement_needed(group1_mbr, remaining[i].mbr)
             enlarge2 == enlargement_needed(group2_mbr, remaining[i].mbr)
             diff == IF enlarge1 >= enlarge2 THEN enlarge1 - enlarge2
                     ELSE enlarge2 - enlarge1
         IN  IF diff > max_diff
             THEN PickNext_tie_to_1(remaining, i + 1, group1_mbr, group2_mbr, diff,
                                    [entry |-> i,
                                     group |-> IF enlarge1 <= enlarge2 THEN 1 ELSE 2])
             ELSE PickNext_tie_to_1(remaining, i + 1, group1_mbr, group2_mbr,
                                    max_diff, best)

\* The scan of one distribution step: the first remaining entry of greatest
\* |enlarge1 - enlarge2| and the group it goes to (2 on a tie).
RECURSIVE PickNext(_, _, _, _, _, _)
PickNext(remaining, i, group1_mbr, group2_mbr, max_diff, best) ==
    IF i > Len(remaining) THEN best
    ELSE LET enlarge1 == enlargement_needed(group1_mbr, remaining[i].mbr)
             enlarge2 == enlargement_needed(group2_mbr, remaining[i].mbr)
             diff == IF enlarge1 >= enlarge2 THEN enlarge1 - enlarge2
                     ELSE enlarge2 - enlarge1
         IN  IF diff > max_diff
             THEN PickNext(remaining, i + 1, group1_mbr, group2_mbr, diff,
                           [entry |-> i,
                            group |-> IF enlarge1 < enlarge2 THEN 1 ELSE 2])
             ELSE PickNext(remaining, i + 1, group1_mbr, group2_mbr, max_diff, best)

\* A removal that drops every element equal to e, not the first alone.
RemoveEvery(seq, e) == SelectSeq(seq, LAMBDA other : other # e)

\* list.remove: drops the first element equal to e.
RECURSIVE RemoveFirst(_, _)
RemoveFirst(seq, e) ==
    IF seq = << >> THEN << >>
    ELSE IF Head(seq) = e THEN Tail(seq)
    ELSE <<Head(seq)>> \o RemoveFirst(Tail(seq), e)

\* The distribution loop without its two forced assignments.
Forced_never(group1, group2, remaining, min_entries) == 0

\* The forced assignments without the second test, the one in favour of group 1.
Forced_group2_only(group1, group2, remaining, min_entries) ==
    IF Len(group1) >= min_entries /\ Len(remaining) + Len(group2) = min_entries
    THEN 2
    ELSE 0

\* The forced assignments of the distribution loop: 1 or 2 is the group that
\* takes all the remaining entries, 0 when the choice is free.
Forced(group1, group2, remaining, min_entries) ==
    IF Len(group1) >= min_entries /\ Len(remaining) + Len(group2) = min_entries
    THEN 2
    ELSE IF Len(group2) >= min_entries /\ Len(remaining) + Len(group1) = min_entries
    THEN 1
    ELSE 0

\* What one round of the while loop of quadratic_split saw and did: the groups,
\* running MBRs and undistributed entries at its head, whether it was a forced
\* assignment (1 or 2, the group; 0 for a free choice), the entries it moved
\* and the group that got them.
Step(forced, group1, group2, group1_mbr, group2_mbr, remaining, moved, to) ==
    [forced |-> forced, group1 |-> group1, group2 |-> group2,
     group1_mbr |-> group1_mbr, group2_mbr |-> group2_mbr,
     remaining |-> remaining, moved |-> moved, to |-> to]

\* The while loop of quadratic_split: the groups and running MBRs it ends with
\* and, as history, the rounds it went through.
RECURSIVE Distribute(_, _, _, _, _, _, _)
RECURSIVE Assign(_, _, _, _, _, _, _, _)
Distribute(group1, group2, group1_mbr, group2_mbr, remaining, min_entries, steps) ==
    IF remaining = << >>
    THEN [group1 |-> group1, group2 |-> group2,
          group1_mbr |-> group1_mbr, group2_mbr |-> group2_mbr, steps |-> steps]
    ELSE IF Forced(group1, group2, remaining, min_entries) = 2
    THEN [group1 |-> group1, group2 |-> group2 \o remaining,
          group1_mbr |-> group1_mbr, group2_mbr |-> group2_mbr,
          steps |-> Append(steps, Step(2, group1, group2, group1_mbr, group2_mbr,
                                       remaining, remaining, 2))]
    ELSE IF Forced(group1, group2, remaining, min_entries) = 1
    THEN [group1 |-> group1 \o remaining, group2 |-> group2,
          group1_mbr |-> group1_mbr, group2_mbr |-> group2_mbr,
          steps |-> Append(steps, Step(1, group1, group2, group1_mbr, group2_mbr,
                                       remaining, remaining, 1))]
    ELSE Assign(group1, group2, group1_mbr, group2_mbr, remaining, min_entries,
                steps, PickNext(remaining, 1, group1_mbr, group2_mbr, -1,
                                [entry |-> 0, group |-> 0]))

\* The end of a round that is not forced: the entry picked joins the group
\* picked for it, whose MBR grows, and leaves `remaining`.
Assign(group1, group2, group1_mbr, group2_mbr, remaining, min_entries, steps, best) ==
    LET best_entry == remaining[best.entry]
    IN  Distribute(IF best.group = 1 THEN Append(group1, best_entry) ELSE group1,
                   IF best.group = 1 THEN group2 ELSE Append(group2, best_entry),
                   IF best.group = 1 THEN union(group1_mbr, best_entry.mbr)
                                     ELSE group1_mbr,
                   IF best.group = 1 THEN group2_mbr
                                     ELSE union(group2_mbr, best_entry.mbr),
                   RemoveFirst(remaining, best_entry), min_entries,
                   Append(steps, Step(0, group1, group2, group1_mbr, group2_mbr,
                                      remaining, <<best_entry>>, best.group)))

\* The groups quadratic_split forms once the seeds are chosen: each group
\* starts with its seed and the other entries are distributed in their order.
GroupsFrom(entries, min_entries, seeds) ==
    LET remaining == SelectSeq([i \in 1 .. Len(entries) |-> <<i, entries[i]>>],
                               LAMBDA p : p[1] \notin {seeds[1], seeds[2]})
    IN  [seeds |-> seeds]
        @@ Distribute(<<entries[seeds[1]]>>, <<entries[seeds[2]]>>,
                      entries[seeds[1]].mbr, entries[seeds[2]].mbr,
                      [k \in 1 .. Len(remaining) |-> remaining[k][2]],
                      min_entries, << >>)

\* The entries of the two groups quadratic_split forms from a node's entries,
\* with the indices of the seeds and the rounds of the loop as history.
SplitGroups(entries, min_entries) ==
    GroupsFrom(entries, min_entries, PickSeeds(entries))

\* The reparenting loops with the owner forgotten: the children keep the
\* parent they had.
Reparent_kept(ns, entries, i, owner) == ns

\* child.parent = owner for every child in entries (the reparenting loops).
RECURSIVE Reparent(_, _, _, _)
Reparent(ns, entries, i, owner) ==
    IF i > Len(entries) THEN ns
    ELSE Reparent([ns EXCEPT ![entries[i].data].parent = owner],
                  entries, i + 1, owner)

\* The end of quadratic_split: node n takes group 1, the node just created
\* takes group 2, and in an internal node the children are reparented.
TakeGroups(created, n, new_node, groups) ==
    LET filled == [created EXCEPT ![n].entries = groups.group1,
                                  ![new_node].entries = groups.group2]
    IN  IF created[n].is_leaf THEN filled
        ELSE Reparent(Reparent(filled, groups.group1, 1, n),
                      groups.group2, 1, new_node)

\* quadratic_split of node n: the arena afterwards; the node keeps group 1 and
\* the new node, appended to the arena, holds group 2.
quadratic_split(ns, n) ==
    TakeGroups(Append(ns, RTreeNode(ns[n].is_leaf, ns[n].max_entries)),
               n, Len(ns) + 1,
               SplitGroups(ns[n].entries, ns[n].min_entries))

\* update_mbr_upward: the first entry of the parent that refers to n gets n's
\* freshly computed MBR, then the parent does the same.
RECURSIVE FirstIndexOf(_, _, _)
FirstIndexOf(entries, i, child) ==
    IF i > Len(entries) THEN 0
    ELSE IF entries[i].data = child THEN i
    ELSE FirstIndexOf(entries, i + 1, child)

\* update_mbr_upward that rewrites the entry in the parent and stops there.
update_mbr_parent_only(ns, n) ==
    IF ns[n].parent = None THEN ns
    ELSE LET parent == ns[n].parent
             i == FirstIndexOf(ns[parent].entries, 1, n)
         IN  IF i = 0 THEN ns
             ELSE [ns EXCEPT ![parent].entries[i] = Entry(mbr(ns[n]), n)]

RECURSIVE update_mbr_upward(_, _)
update_mbr_upward(ns, n) ==
    IF ns[n].parent = None THEN ns
    ELSE LET parent == ns[n].parent
             i == FirstIndexOf(ns[parent].entries, 1, n)
             updated == IF i = 0 THEN ns
                        ELSE [ns EXCEPT ![parent].entries[i] = Entry(mbr(ns[n]), n)]
         IN  update_mbr_upward(updated, parent)

\* RTreeNode.search: the payloads found below node n, in visiting order.
RECURSIVE search(_, _, _)
RECURSIVE SearchFrom(_, _, _, _)
SearchFrom(ns, n, i, query_rect) ==
    IF i > Len(ns[n].entries) THEN << >>
    ELSE LET e == ns[n].entries[i]
             here == IF ~ intersects(e.mbr, query_rect) THEN << >>
                     ELSE IF ns[n].is_leaf THEN <<e.data>>
                     ELSE search(ns, e.data, query_rect)
         IN  here \o SearchFrom(ns, n, i + 1, query_rect)

search(ns, n, query_rect) == SearchFrom(ns, n, 1, query_rect)

\* ------------------------------------------------------------------ RTree

\* A tree value: the arena and the fields of RTree, with what the insertion in
\* progress has observed: `visited` and `sizes`, each node handed to
\* _handle_overflow and its entry count, and `splits`, the entry count of each
\* node handed to quadratic_split, all in call order.
\* A constructor that creates an empty leaf root at once.
RTree_with_root(max_entries_) ==
    [nodes |-> <<RTreeNode(TRUE, max_entries_)>>, root |-> 1,
     max_entries |-> max_entries_, height |-> 0,
     visited |-> << >>, sizes |-> << >>, splits |-> << >>, raised |-> FALSE]

RTree(max_entries_) ==
    [nodes |-> << >>, root |-> None, max_entries |-> max_entries_, height |-> 0,
     visited |-> << >>, sizes |-> << >>, splits |-> << >>, raised |-> FALSE]

\* The root case of _handle_overflow without `self.height += 1`.
NewRoot_same_height(t, ns, node1, node2) ==
    LET new_root == Len(ns) + 1
        created == Append(ns, RTreeNode(FALSE, t.max_entries))
        first == add_entry(created, new_root, mbr(created[node1]), node1)
        second == add_entry(first, new_root, mbr(first[node2]), node2)
    IN  [t EXCEPT !.nodes = [second EXCEPT ![node1].parent = new_root,
                                          ![node2].parent = new_root],
                  !.root = new_root]

\* The root case of _handle_overflow without the two add_entry calls.
NewRoot_no_entries(t, ns, node1, node2) ==
    LET new_root == Len(ns) + 1
        created == Append(ns, RTreeNode(FALSE, t.max_entries))
    IN  [t EXCEPT !.nodes = [created EXCEPT ![node1].parent = new_root,
                                           ![node2].parent = new_root],
                  !.root = new_root,
                  !.height = t.height + 1]

\* The root case of _handle_overflow: a new internal root over node1 and node2.
NewRoot(t, ns, node1, node2) ==
    LET new_root == Len(ns) + 1
        created == Append(ns, RTreeNode(FALSE, t.max_entries))
        first == add_entry(created, new_root, mbr(created[node1]), node1)
        second == add_entry(first, new_root, mbr(first[node2]), node2)
    IN  [t EXCEPT !.nodes = [second EXCEPT ![node1].parent = new_root,
                                          ![node2].parent = new_root],
                  !.root = new_root,
                  !.height = t.height + 1]

\* The non-root case of _handle_overflow without `node2.parent = parent`.
AddSibling_orphan(t, ns, node, node2) ==
    LET parent == ns[node].parent
        added == add_entry(ns, parent, mbr(ns[node2]), node2)
    IN  [t EXCEPT !.nodes = added]

\* The non-root case of _handle_overflow, before the recursive call: the new
\* sibling becomes one more entry of the parent.
AddSibling(t, ns, node, node2) ==
    LET parent == ns[node].parent
        added == add_entry(ns, parent, mbr(ns[node2]), node2)
    IN  [t EXCEPT !.nodes = [added EXCEPT ![node2].parent = parent]]

RECURSIVE handle_overflow(_, _)
handle_overflow(t, node) ==
    LET seen == [t EXCEPT !.visited = Append(@, node),
                          !.sizes = Append(@, Len(t.nodes[node].entries))]
    IN  IF ~ is_full(t.nodes[node]) THEN seen
        ELSE LET ns == quadratic_split(t.nodes, node)
                 node2 == Len(t.nodes) + 1
                 split == [seen EXCEPT !.splits =
                               Append(@, Len(t.nodes[node].entries))]
             IN  IF t.nodes[node].parent = None
                 THEN NewRoot(split, ns, node, node2)
                 ELSE handle_overflow(AddSibling(split, ns, node, node2),
                                      t.nodes[node].parent)

\* RTree.insert; `raised` records that choose_subtree raised its ValueError,
\* which leaves the tree as it was.
insert(tree, x, y, data) ==
    LET rect == Rectangle(x, y, x, y)
        t == [tree EXCEPT !.visited = << >>, !.sizes = << >>, !.splits = << >>,
                          !.raised = FALSE]
    IN  IF t.root = None
        THEN LET new_root == Len(t.nodes) + 1
             IN  [t EXCEPT !.nodes = add_entry(
                               Append(t.nodes, RTreeNode(TRUE, t.max_entries)),
                               new_root, rect, data),
                           !.root = new_root,
                           !.height = 1]
        ELSE LET leaf == choose_subtree(t.nodes, t.root, rect)
             IN  IF leaf = None THEN [t EXCEPT !.raised = TRUE]
                 ELSE LET grown == [t EXCEPT !.nodes = add_entry(@, leaf, rect, data)]
                          settled == handle_overflow(grown, leaf)
                      IN  [settled EXCEPT !.nodes = update_mbr_upward(@, leaf)]

search_point(t, x, y) ==
    IF t.root = None THEN << >>
    ELSE search(t.nodes, t.root, Rectangle(x, y, x, y))

search_rectangle(t, x_min, y_min, x_max, y_max) ==
    IF t.root = None THEN << >>
    ELSE search(t.nodes, t.root, Rectangle(x_min, y_min, x_max, y_max))

\* ------------------------------------------------------------------ rtree_main.py

\* The points the demonstration driver inserts, in its order.
points ==
    << <<2, 3, "Restaurant A">>, <<5, 4, "Restaurant B">>, <<9, 6, "Store C">>,
       <<4, 7, "Store D">>, <<8, 1, "Park E">>, <<7, 8, "Museum F">>,
       <<1, 2, "Cafe G">>, <<3, 5, "Library H">>, <<6, 2, "Bank I">>,
       <<5, 9, "Hospital J">> >>

\* for x, y, name in points: rtree.insert(x, y, name)
RECURSIVE InsertAll(_, _, _)
InsertAll(t, seq, i) ==
    IF i > Len(seq) THEN t
    ELSE InsertAll(insert(t, seq[i][1], seq[i][2], seq[i][3]), seq, i + 1)

\* ------------------------------------------------------------------ PriorityQueue

\* _heap holds (priority, counter, item) tuples.  heapq keeps them as a binary
\* heap; the model keeps them in ascending (priority, counter) order, which has
\* the same least tuple at index 0 and the same pop order.
PriorityQueue == [heap |-> << >>, counter |-> 0]

TupleLess(a, b) == a[1] < b[1] \/ (a[1] = b[1] /\ a[2] < b[2])

RECURSIVE heappush(_, _)
heappush(heap, tuple) ==
    IF heap = << >> THEN <<tuple>>
    ELSE IF TupleLess(tuple, Head(heap)) THEN <<tuple>> \o heap
    ELSE <<Head(heap)>> \o heappush(Tail(heap), tuple)

\* push whose counter counts down.
push_counting_down(pq, priority, item) ==
    [heap |-> heappush(pq.heap, <<priority, pq.counter, item>>),
     counter |-> pq.counter - 1]

push(pq, priority, item) ==
    [heap |-> heappush(pq.heap, <<priority, pq.counter, item>>),
     counter |-> pq.counter + 1]

\* pop that starts the counter again at 0.
pop_resetting_counter(pq) ==
    IF pq.heap = << >>
    THEN [raised |-> TRUE, queue |-> pq]
    ELSE [raised |-> FALSE, priority |-> Head(pq.heap)[1], item |-> Head(pq.heap)[3],
          queue |-> [heap |-> Tail(pq.heap), counter |-> 0]]

\* pop that takes the last tuple of the list, not the least.
pop_last(pq) ==
    IF pq.heap = << >>
    THEN [raised |-> TRUE, queue |-> pq]
    ELSE [raised |-> FALSE, priority |-> pq.heap[Len(pq.heap)][1],
          item |-> pq.heap[Len(pq.heap)][3],
          queue |-> [pq EXCEPT !.heap = SubSeq(pq.heap, 1, Len(pq.heap) - 1)]]

\* pop that returns a default pair from an empty queue.
pop_default(pq) ==
    IF pq.heap = << >>
    THEN [raised |-> FALSE, priority |-> 0, item |-> "", queue |-> pq]
    ELSE [raised |-> FALSE, priority |-> Head(pq.heap)[1], item |-> Head(pq.heap)[3],
          queue |-> [pq EXCEPT !.heap = Tail(pq.heap)]]

\* pop: the (priority, item) returned and the queue afterwards; `raised` is the
\* IndexError of an empty queue.
pop(pq) ==
    IF pq.heap = << >>
    THEN [raised |-> TRUE, queue |-> pq]
    ELSE [raised |-> FALSE, priority |-> Head(pq.heap)[1], item |-> Head(pq.heap)[3],
          queue |-> [pq EXCEPT !.heap = Tail(pq.heap)]]

\* peek that removes what it returns.
peek_popping(pq) ==
    IF pq.heap = << >>
    THEN [raised |-> TRUE, queue |-> pq]
    ELSE [raised |-> FALSE, priority |-> pq.heap[1][1], item |-> pq.heap[1][3],
          queue |-> [pq EXCEPT !.heap = Tail(pq.heap)]]

\* peek: the (priority, item) returned; the queue afterwards is the queue.
peek(pq) ==
    IF pq.heap = << >>
    THEN [raised |-> TRUE, queue |-> pq]
    ELSE [raised |-> FALSE, priority |-> pq.heap[1][1], item |-> pq.heap[1][3],
          queue |-> pq]

is_empty(pq) == Len(pq.heap) = 0

\* __len__ that reports the counter, the number of pushes so far.
len_pushed(pq) == pq.counter

\* __len__
len(pq) == Len(pq.heap)

\* ------------------------------------------------------------------ RTree.knn

\* A queue item is a node, or a leaf entry that is a finalized candidate.
NodeItem(n) == [kind |-> "node", node |-> n, data |-> ""]

EntryItem(data) == [kind |-> "entry", node |-> None, data |-> data]

\* Pushes the entries of node n from the i-th on: children of an internal node
\* as nodes, entries of a leaf as candidates, each keyed by its rectangle's
\* min_distance_to_point.
RECURSIVE PushEntries(_, _, _, _, _, _)
PushEntries(pq, ns, n, i, x, y) ==
    IF i > Len(ns[n].entries) THEN pq
    ELSE LET e == ns[n].entries[i]
             item == IF ns[n].is_leaf THEN EntryItem(e.data) ELSE NodeItem(e.data)
         IN  PushEntries(push(pq, min_distance_to_point(e.mbr, x, y), item),
                         ns, n, i + 1, x, y)

RECURSIVE KnnLoop(_, _, _, _, _, _)
KnnLoop(ns, pq, results, x, y, k) ==
    IF Len(results) >= k \/ pq.heap = << >> THEN results
    ELSE LET top == pop(pq)
         IN  IF top.item.kind = "entry"
             THEN KnnLoop(ns, top.queue,
                          Append(results, <<top.item.data, top.priority>>), x, y, k)
             ELSE KnnLoop(ns, PushEntries(top.queue, ns, top.item.node, 1, x, y),
                          results, x, y, k)

\* knn that guards k = 0 alone and takes a negative k for its magnitude.
knn_magnitude(t, x, y, k) ==
    IF k = 0 THEN << >>
    ELSE IF t.root = None THEN << >>
    ELSE KnnLoop(t.nodes,
                 push(PriorityQueue,
                      min_distance_to_point(mbr(t.nodes[t.root]), x, y),
                      NodeItem(t.root)),
                 << >>, x, y, IF k < 0 THEN 0 - k ELSE k)

\* The (payload, squared distance) pairs of knn(x, y, k).
knn(t, x, y, k) ==
    IF k <= 0 THEN << >>
    ELSE IF t.root = None THEN << >>
    ELSE KnnLoop(t.nodes,
                 push(PriorityQueue,
                      min_distance_to_point(mbr(t.nodes[t.root]), x, y),
                      NodeItem(t.root)),
                 << >>, x, y, k)

\* ------------------------------------------------------------------ the program

\* The queries a caller makes.
QueryPoints == { <<1, 2>>, <<0, 5>>, <<0, 10>> }

QueryRects == { <<0, 0, 10, 10>>, <<0, 2, 1, 5>>, <<3, 3, 7, 7>> }

Ks == {-1, 0, 2, 20}

VARIABLES
    tree,       \* the RTree object (see RTree above)
    inserted,   \* history: the (x, y, data) of every completed insert, in order
    calls,      \* history: the number of insert calls made by the caller
    result,     \* the query that has just returned, with its value, until the
                \* caller takes it (Idle otherwise)
    arena,      \* RTreeNode objects built by hand: the node under split at
                \* index 1, then its children and the node the split creates
    halves,     \* the (node1, node2) quadratic_split returned and, as history,
                \* the entries it was called on, their count, and the seeds
                \* and rounds of its loop; << >> before the call
    queue,      \* a PriorityQueue object
    waiting,    \* history: the (priority, item) pairs pushed and not yet
                \* popped, in push order
    run,        \* history: the priorities popped since the last push
    pushes,     \* history: the number of push calls
    pops,       \* history: the number of pop calls that returned a pair
    returned,   \* what the last call on the queue returned or raised
    rect1,      \* a Rectangle object, the receiver of the calls on rectangles
    rect2,      \* a second Rectangle object, the argument of those calls
    answer      \* the last call on rect1 with its arguments and what it returned

tree_vars == <<tree, inserted, calls, result>>

node_vars == <<arena, halves>>

queue_vars == <<queue, waiting, run, pushes, pops, returned>>

rect_vars == <<rect1, rect2, answer>>

vars ==
    <<tree, inserted, calls, result, arena, halves,
      queue, waiting, run, pushes, pops, returned, rect1, rect2, answer>>

Idle == [op |-> "none"]

\* The objects a run does not use: none constructed yet.
NoTree == tree = RTree(4) /\ inserted = << >> /\ calls = 0 /\ result = Idle

NoNode == arena = << >> /\ halves = << >>

NoQueue ==
    /\ queue = PriorityQueue
    /\ waiting = << >>
    /\ run = << >>
    /\ pushes = 0
    /\ pops = 0
    /\ returned = Idle

NoRect ==
    /\ rect1 = Rectangle(0, 0, 0, 0)
    /\ rect2 = Rectangle(0, 0, 0, 0)
    /\ answer = Idle

Init ==
    /\ tree \in {RTree(m) : m \in MaxEntriesSet}
    /\ inserted = << >>
    /\ calls = 0
    /\ result = Idle
    /\ NoNode
    /\ NoQueue
    /\ NoRect

\* rtree.insert(x, y, data)
Insert ==
    /\ result = Idle
    /\ calls < MaxInserts
    /\ \E input \in Inputs :
         /\ tree' = insert(tree, input[1], input[2], input[3])
         /\ inserted' = IF tree'.raised THEN inserted ELSE Append(inserted, input)
    /\ calls' = calls + 1
    /\ UNCHANGED <<result, node_vars, queue_vars, rect_vars>>

\* rtree_main.py: a tree of capacity 3 is built and seeded with `points`.
Main ==
    /\ result = Idle
    /\ tree.root = None
    /\ calls = 0
    /\ tree' = InsertAll(RTree(3), points, 1)
    /\ inserted' = points
    /\ UNCHANGED <<calls, result, node_vars, queue_vars, rect_vars>>

SearchPoint ==
    /\ result = Idle
    /\ \E q \in QueryPoints :
         result' = [op |-> "search_point", x |-> q[1], y |-> q[2],
                    value |-> search_point(tree, q[1], q[2])]
    /\ UNCHANGED <<tree, inserted, calls, node_vars, queue_vars, rect_vars>>

\* A search_rectangle that moves the last entry of the root to the front.
SearchRectangle_reordering ==
    /\ result = Idle
    /\ tree.root # None
    /\ \E q \in QueryRects :
         result' = [op |-> "search_rectangle", rect |-> Rectangle(q[1], q[2], q[3], q[4]),
                    value |-> search_rectangle(tree, q[1], q[2], q[3], q[4])]
    /\ tree' = [tree EXCEPT !.nodes[tree.root].entries =
                    <<@[Len(@)]>> \o SubSeq(@, 1, Len(@) - 1)]
    /\ UNCHANGED <<inserted, calls, node_vars, queue_vars, rect_vars>>

SearchRectangle ==
    /\ result = Idle
    /\ \E q \in QueryRects :
         result' = [op |-> "search_rectangle", rect |-> Rectangle(q[1], q[2], q[3], q[4]),
                    value |-> search_rectangle(tree, q[1], q[2], q[3], q[4])]
    /\ UNCHANGED <<tree, inserted, calls, node_vars, queue_vars, rect_vars>>

Knn ==
    /\ result = Idle
    /\ \E q \in QueryPoints, k \in Ks :
         result' = [op |-> "knn", x |-> q[1], y |-> q[2], k |-> k,
                    value |-> knn(tree, q[1], q[2], k)]
    /\ UNCHANGED <<tree, inserted, calls, node_vars, queue_vars, rect_vars>>

\* The caller takes the value a query returned.
Return ==
    /\ result # Idle
    /\ result' = Idle
    /\ UNCHANGED <<tree, inserted, calls, node_vars, queue_vars, rect_vars>>

Next == Insert \/ Main \/ SearchPoint \/ SearchRectangle \/ Knn \/ Return

Spec == Init /\ [][Next]_vars

\* ------------------------------------------------------------------ a node built by hand and split

\* The capacities and the entry rectangles a caller gives to a node of its own:
\* a point, a box, a smaller box inside it, a distant point.
Capacities == {3, 4, 5, 6}

EntryRects ==
    { Rectangle(0, 0, 0, 0), Rectangle(2, 1, 3, 3), Rectangle(2, 0, 4, 4),
      Rectangle(8, 8, 8, 8) }

\* node = RTreeNode(is_leaf, max_entries)
NodeInit ==
    /\ arena \in {<<RTreeNode(is_leaf, m)>> : is_leaf \in BOOLEAN, m \in Capacities}
    /\ halves = << >>
    /\ NoTree
    /\ NoQueue
    /\ NoRect

\* node.add_entry(rect, data): a payload for a leaf, a fresh child node for an
\* internal node.  The caller stops at max_entries + 1 entries.
AddEntry ==
    /\ halves = << >>
    /\ Len(arena[1].entries) <= arena[1].max_entries
    /\ \E rect \in EntryRects :
         arena' = IF arena[1].is_leaf
                  THEN add_entry(arena, 1, rect, "data")
                  ELSE add_entry(Append(arena, RTreeNode(TRUE, arena[1].max_entries)),
                                 1, rect, Len(arena) + 1)
    /\ UNCHANGED <<halves, tree_vars, queue_vars, rect_vars>>

\* node1, node2 = node.quadratic_split(), on a node of at least two entries.
QuadraticSplit ==
    /\ halves = << >>
    /\ Len(arena[1].entries) >= 2
    /\ arena' = quadratic_split(arena, 1)
    /\ halves' = [node1 |-> 1, node2 |-> Len(arena) + 1,
                  count |-> Len(arena[1].entries),
                  entries |-> arena[1].entries,
                  groups |-> SplitGroups(arena[1].entries, arena[1].min_entries)]
    /\ UNCHANGED <<tree_vars, queue_vars, rect_vars>>

NodeNext == AddEntry \/ QuadraticSplit

NodeSpec == NodeInit /\ [][NodeNext]_vars

\* ------------------------------------------------------------------ a queue and its caller

MaxPushes == 4

\* The priorities and items a caller pushes.
Priorities == {-1, 0, 1}

Items == {"a", "b"}

\* pq = PriorityQueue()
QueueInit ==
    /\ NoQueue
    /\ NoTree
    /\ NoNode
    /\ NoRect

\* What a call returned to the caller: the pair, or that it raised IndexError.
Outcome(op, r) ==
    IF r.raised THEN [op |-> op, raised |-> TRUE]
    ELSE [op |-> op, raised |-> FALSE, priority |-> r.priority, item |-> r.item]

\* pq.push(priority, item)
Push ==
    /\ queue.counter < MaxPushes
    /\ \E priority \in Priorities, item \in Items :
         /\ queue' = push(queue, priority, item)
         /\ waiting' = Append(waiting, <<priority, item>>)
    /\ run' = << >>
    /\ pushes' = pushes + 1
    /\ UNCHANGED pops
    /\ returned' = [op |-> "push", raised |-> FALSE]
    /\ UNCHANGED <<tree_vars, node_vars, rect_vars>>

\* pq.pop()
Pop ==
    /\ queue' = pop(queue).queue
    /\ returned' = Outcome("pop", pop(queue))
    /\ waiting' = IF returned'.raised THEN waiting
                  ELSE RemoveFirst(waiting, <<returned'.priority, returned'.item>>)
    /\ run' = IF returned'.raised THEN run ELSE Append(run, returned'.priority)
    /\ pops' = IF returned'.raised THEN pops ELSE pops + 1
    /\ UNCHANGED pushes
    /\ UNCHANGED <<tree_vars, node_vars, rect_vars>>

\* pq.peek()
Peek ==
    /\ queue' = peek(queue).queue
    /\ returned' = Outcome("peek", peek(queue))
    /\ UNCHANGED <<waiting, run, pushes, pops, tree_vars, node_vars, rect_vars>>

QueueNext == Push \/ Pop \/ Peek

QueueSpec == QueueInit /\ [][QueueNext]_vars

\* ------------------------------------------------------------------ two rectangles and their caller

\* The coordinates a caller builds rectangles from, and the coordinates of the
\* points it asks about: inside, on the border of and outside every rectangle.
Coords == {0, 1, 3}

PointCoords == {-1, 0, 1, 2, 3, 4}

\* The rectangles with x_min <= x_max and y_min <= y_max over Coords.
Rects ==
    {Rectangle(c[1], c[2], c[3], c[4]) :
        c \in {c \in Coords \X Coords \X Coords \X Coords :
                 c[1] <= c[3] /\ c[2] <= c[4]}}

\* rect1 = Rectangle(...); rect2 = Rectangle(...); the caller then makes one
\* call on rect1.
RectInit ==
    /\ rect1 \in Rects
    /\ rect2 \in Rects
    /\ answer = Idle
    /\ NoTree
    /\ NoNode
    /\ NoQueue

\* rect1.enlargement_needed(rect2)
EnlargementNeeded ==
    /\ answer = Idle
    /\ answer' = [op |-> "enlargement_needed",
                  value |-> enlargement_needed(rect1, rect2)]
    /\ UNCHANGED <<rect1, rect2, tree_vars, node_vars, queue_vars>>

\* rect1.union(rect2)
Union ==
    /\ answer = Idle
    /\ answer' = [op |-> "union", value |-> union(rect1, rect2)]
    /\ UNCHANGED <<rect1, rect2, tree_vars, node_vars, queue_vars>>

\* rect1.intersects(rect2)
Intersects ==
    /\ answer = Idle
    /\ answer' = [op |-> "intersects", value |-> intersects(rect1, rect2)]
    /\ UNCHANGED <<rect1, rect2, tree_vars, node_vars, queue_vars>>

\* rect1.contains_point(x, y)
ContainsPoint ==
    /\ answer = Idle
    /\ \E x \in PointCoords, y \in PointCoords :
         answer' = [op |-> "contains_point", x |-> x, y |-> y,
                    value |-> contains_point(rect1, x, y)]
    /\ UNCHANGED <<rect1, rect2, tree_vars, node_vars, queue_vars>>

\* rect1.min_distance_to_point(x, y)
MinDistanceToPoint ==
    /\ answer = Idle
    /\ \E x \in PointCoords, y \in PointCoords :
         answer' = [op |-> "min_distance_to_point", x |-> x, y |-> y,
                    value |-> min_distance_to_point(rect1, x, y)]
    /\ UNCHANGED <<rect1, rect2, tree_vars, node_vars, queue_vars>>

RectNext ==
    EnlargementNeeded \/ Union \/ Intersects \/ ContainsPoint \/ MinDistanceToPoint

RectSpec == RectInit /\ [][RectNext]_vars

\* ------------------------------------------------------------------ vocabulary of the claims

Count(seq, v) == Cardinality({i \in 1 .. Len(seq) : seq[i] = v})

Range(seq) == {seq[i] : i \in 1 .. Len(seq)}

\* The nodes of the subtree of node n.
RECURSIVE Subtree(_, _)
Subtree(ns, n) ==
    IF ns[n].is_leaf THEN {n}
    ELSE {n} \cup UNION {Subtree(ns, ns[n].entries[i].data) :
                           i \in 1 .. Len(ns[n].entries)}

TreeNodes == IF tree.root = None THEN {} ELSE Subtree(tree.nodes, tree.root)

InternalNodes == {n \in TreeNodes : ~ tree.nodes[n].is_leaf}

\* The depths of the leaves below node n, which is at depth d.
RECURSIVE LeafDepths(_, _, _)
LeafDepths(ns, n, d) ==
    IF ns[n].is_leaf THEN {d}
    ELSE UNION {LeafDepths(ns, ns[n].entries[i].data, d + 1) :
                  i \in 1 .. Len(ns[n].entries)}

\* The leaf entries below node n as (x_min, y_min, x_max, y_max, data), left to right.
RECURSIVE Stored(_, _)
RECURSIVE StoredFrom(_, _, _)
StoredFrom(ns, n, i) ==
    IF i > Len(ns[n].entries) THEN << >>
    ELSE LET e == ns[n].entries[i]
         IN  (IF ns[n].is_leaf
              THEN << <<e.mbr.x_min, e.mbr.y_min, e.mbr.x_max, e.mbr.y_max, e.data>> >>
              ELSE Stored(ns, e.data))
             \o StoredFrom(ns, n, i + 1)

Stored(ns, n) == StoredFrom(ns, n, 1)

StoredEntries == IF tree.root = None THEN << >> ELSE Stored(tree.nodes, tree.root)

\* The inserted (x, y, data) as the leaf entries they should be.
InsertedEntries ==
    [i \in 1 .. Len(inserted) |->
        <<inserted[i][1], inserted[i][2], inserted[i][1], inserted[i][2], inserted[i][3]>>]

\* The payloads of the insertions whose point lies in the closed rectangle q.
PayloadsIn(q) ==
    LET hits == SelectSeq(inserted, LAMBDA p : contains_point(q, p[1], p[2]))
    IN  [i \in 1 .. Len(hits) |-> hits[i][3]]

\* The query rectangles of the claims: those of the callers and the callers' points.
ClaimRects ==
    {Rectangle(q[1], q[2], q[3], q[4]) : q \in QueryRects}
        \cup {Rectangle(q[1], q[2], q[1], q[2]) : q \in QueryPoints}

SearchOf(q) == search_rectangle(tree, q.x_min, q.y_min, q.x_max, q.y_max)

\* No query result is pending.  A query leaves `tree` as it is, so the trees of
\* these states are all the trees there are.
AtRest == result = Idle

\* ------------------------------------------------------------------ claims

\* C1: after any sequence of inserts, for every inserted (x, y, payload) the
\* result of search_point(x, y) contains payload.
C1_RoundTrip ==
    \A i \in 1 .. Len(inserted) :
        inserted[i][3] \in Range(search_point(tree, inserted[i][1], inserted[i][2]))

\* C2: for every query rectangle, search_rectangle returns the payload of every
\* inserted point inside the closed rectangle, once per insertion of the point.
C2_RangeComplete ==
    \A q \in ClaimRects :
        \A d \in Range(PayloadsIn(q)) :
            Count(SearchOf(q), d) = Count(PayloadsIn(q), d)

\* C3: search_rectangle and search_point never return a payload of a point
\* outside the closed query rectangle and never return an inserted entry more
\* than once; a degenerate query on no inserted point returns the empty list.
C3_RangeSound ==
    AtRest =>
    /\ \A q \in ClaimRects :
          /\ \A d \in Range(SearchOf(q)) :
                Count(SearchOf(q), d) <= Count(PayloadsIn(q), d)
          /\ PayloadsIn(q) = << >> => SearchOf(q) = << >>
    /\ \A p \in QueryPoints :
          search_point(tree, p[1], p[2]) = SearchOf(Rectangle(p[1], p[2], p[1], p[2]))

\* C3's case: in a tree of three levels a range search has just returned some
\* but not all of the payloads, and a point search has nothing to return.
C3_Witness ==
    /\ tree.height = 3
    /\ result # Idle
    /\ result.op = "search_rectangle"
    /\ result.value # << >>
    /\ Len(result.value) < Len(inserted)
    /\ \E p \in QueryPoints : PayloadsIn(Rectangle(p[1], p[2], p[1], p[2])) = << >>

\* C4: after every completed insertion the rectangle of every entry of every
\* internal node equals the MBR of the child it refers to.
C4_TightBounds ==
    \A n \in InternalNodes :
        \A i \in 1 .. Len(tree.nodes[n].entries) :
            tree.nodes[n].entries[i].mbr
                = mbr(tree.nodes[tree.nodes[n].entries[i].data])

\* C5: after every completed insertion every non-root node holds at least
\* min_entries = max_entries \div 2 and at most max_entries entries.
C5_Fill ==
    AtRest =>
    \A n \in TreeNodes \ {tree.root} :
        /\ tree.max_entries \div 2 <= Len(tree.nodes[n].entries)
        /\ Len(tree.nodes[n].entries) <= tree.max_entries

\* C5's case: the insertion just completed split a node of a tree of capacity 4
\* and a node was left with exactly min_entries = 2 entries.
C5_Witness ==
    /\ AtRest
    /\ tree.max_entries = 4
    /\ tree.splits # << >>
    /\ \E n \in TreeNodes \ {tree.root} : Len(tree.nodes[n].entries) = 2

\* C6: after every completed insertion all leaves are at the same depth, which
\* (the root being level 1) is tree.height; height is 0 exactly when the root
\* is absent.
C6_Balance ==
    AtRest =>
    /\ (tree.height = 0) <=> (tree.root = None)
    /\ tree.root # None => LeafDepths(tree.nodes, tree.root, 1) = {tree.height}

\* C6's case: the insertion just completed split nodes on two levels of a tree
\* that now has three levels.
C6_Witness ==
    /\ AtRest
    /\ tree.height = 3
    /\ Len(tree.splits) >= 2

\* C7: after every completed insertion no node holds more than max_entries
\* entries; during an insertion no node holds more than max_entries + 1, and
\* quadratic_split is invoked only on a node of exactly max_entries + 1 entries.
C7_Capacity ==
    AtRest =>
    /\ \A n \in TreeNodes : Len(tree.nodes[n].entries) <= tree.max_entries
    /\ \A i \in 1 .. Len(tree.sizes) : tree.sizes[i] <= tree.max_entries + 1
    /\ \A i \in 1 .. Len(tree.splits) : tree.splits[i] = tree.max_entries + 1

\* C7's case: the insertion just completed overflowed a leaf and then its
\* parent, and some node is left holding exactly max_entries entries.
C7_Witness ==
    /\ AtRest
    /\ Len(tree.splits) >= 2
    /\ \E n \in TreeNodes : Len(tree.nodes[n].entries) = tree.max_entries

\* C8: the multiset of (point rectangle, payload) pairs stored in the leaves is
\* the multiset of inserted (point, payload) pairs, and a search_rectangle
\* query that covers every inserted point returns exactly the inserted payloads.
C8_NoLossNoDuplication ==
    AtRest =>
    /\ \A e \in Range(StoredEntries) \cup Range(InsertedEntries) :
          Count(StoredEntries, e) = Count(InsertedEntries, e)
    /\ \A q \in ClaimRects :
          PayloadsIn(q) = [i \in 1 .. Len(inserted) |-> inserted[i][3]]
              => \A d \in Range(SearchOf(q)) \cup Range(PayloadsIn(q)) :
                    Count(SearchOf(q), d) = Count(PayloadsIn(q), d)

\* C8's case: equal (point, payload) pairs were inserted more than once, nodes
\* were split on two levels, and a query rectangle covers every inserted point.
C8_Witness ==
    /\ AtRest
    /\ Len(tree.splits) >= 2
    /\ \E i, j \in 1 .. Len(inserted) : i < j /\ inserted[i] = inserted[j]
    /\ \E q \in ClaimRects :
          PayloadsIn(q) = [i \in 1 .. Len(inserted) |-> inserted[i][3]]

\* The squared distance from the query point (x, y) to an inserted point.
Dist2(input, x, y) ==
    (input[1] - x) * (input[1] - x) + (input[2] - y) * (input[2] - y)

\* The (payload, squared distance) pair knn should report for each insertion.
TruePairs(x, y) ==
    [i \in 1 .. Len(inserted) |-> <<inserted[i][3], Dist2(inserted[i], x, y)>>]

NonDecreasing(r) == \A i, j \in 1 .. Len(r) : i < j => r[i][2] <= r[j][2]

\* r[i] is at the distance of the i-th nearest inserted point.
RanksRight(r, x, y) ==
    \A i \in 1 .. Len(r) :
        /\ Cardinality({j \in 1 .. Len(inserted) : Dist2(inserted[j], x, y) < r[i][2]}) < i
        /\ Cardinality({j \in 1 .. Len(inserted) : Dist2(inserted[j], x, y) <= r[i][2]}) >= i

\* C9: for any query point and k > 0, knn returns (payload, distance) pairs in
\* non-decreasing distance order whose distances are the k smallest distances
\* from the query to the inserted points, each inserted entry at most once.
C9_KnnCorrect ==
    AtRest =>
    \A q \in QueryPoints, k \in Ks :
        k > 0 =>
            LET r == knn(tree, q[1], q[2], k)
            IN  /\ NonDecreasing(r)
                /\ Len(r) = Min(k, Len(inserted))
                /\ RanksRight(r, q[1], q[2])
                /\ \A v \in Range(r) : Count(r, v) <= Count(TruePairs(q[1], q[2]), v)

\* The part of C10 about the length alone.
KnnLengthOnly ==
    AtRest =>
    \A q \in QueryPoints, k \in Ks :
        k > 0 => Len(knn(tree, q[1], q[2], k)) = Min(k, Len(inserted))

\* C10: for k > 0, knn returns exactly min(k, number of inserted points) pairs;
\* when k exceeds the population it returns every inserted point, sorted by
\* distance.
C10_KnnLength ==
    AtRest =>
    \A q \in QueryPoints, k \in Ks :
        k > 0 =>
            LET r == knn(tree, q[1], q[2], k)
            IN  /\ Len(r) = Min(k, Len(inserted))
                /\ k > Len(inserted) =>
                      /\ \A v \in Range(r) \cup Range(TruePairs(q[1], q[2])) :
                            Count(r, v) = Count(TruePairs(q[1], q[2]), v)
                      /\ NonDecreasing(r)

\* C11: a knn call with k <= 0, or on an empty tree, returns the empty list, and
\* no knn call changes the tree.
C11_KnnBoundaries ==
    [][(result = Idle /\ result'.op = "knn")
          => /\ tree' = tree
             /\ (result'.k <= 0 \/ tree.root = None) => result'.value = << >>]_vars

\* C11's case: knn with a negative k has just returned from a tree of three
\* levels.
C11_Witness ==
    /\ result.op = "knn"
    /\ result.k < 0
    /\ tree.height = 3

\* An insert call into a tree that has a root.
InsertIntoNonEmpty == tree.root # None /\ calls' = calls + 1

\* C13: an insertion into a non-empty tree leaves height as it is or raises it
\* by exactly 1; it raises it exactly when the cascade has split a node on
\* every level up to the parentless root and the root reference is replaced,
\* and every other insertion keeps the root reference; no operation lowers
\* height.
C13_HeightEvolution ==
    [][/\ tree'.height >= tree.height
       /\ InsertIntoNonEmpty
             => /\ tree'.height \in {tree.height, tree.height + 1}
                /\ (tree'.height = tree.height + 1) <=> (tree'.root # tree.root)
                /\ (tree'.root # tree.root)
                      <=> /\ Len(tree'.splits) = Len(tree'.visited)
                          /\ tree'.visited[Len(tree'.visited)] = tree.root
                          /\ tree.nodes[tree.root].parent = None]_vars

\* C13's case: the insertion just completed replaced the root of a tree of two
\* levels, which now has three.
C13_Witness ==
    /\ AtRest
    /\ tree.height = 3
    /\ Len(tree.splits) = 2
    /\ tree.visited[2] # tree.root
    /\ tree.nodes[tree.visited[2]].parent = tree.root

\* C14: from an empty tree, insertions 1 to max_entries leave a single leaf
\* root of height 1 that holds every inserted entry (the first of them creates
\* it), and insertion max_entries + 1 leaves an internal root of exactly two
\* entries, both leaves, and height 2.
C14_RootGrowth ==
    (AtRest /\ Len(inserted) = calls) =>
    /\ calls = 0 => tree.root = None /\ tree.height = 0
    /\ (1 <= calls /\ calls <= tree.max_entries)
          => /\ tree.root # None
             /\ tree.nodes[tree.root].is_leaf
             /\ tree.nodes[tree.root].parent = None
             /\ Len(tree.nodes[tree.root].entries) = calls
             /\ tree.height = 1
             /\ tree.splits = << >>
    /\ calls = tree.max_entries + 1
          => /\ ~ tree.nodes[tree.root].is_leaf
             /\ Len(tree.nodes[tree.root].entries) = 2
             /\ \A i \in 1 .. 2 :
                   tree.nodes[tree.nodes[tree.root].entries[i].data].is_leaf
             /\ tree.height = 2
             /\ Len(tree.splits) = 1

\* C14's case: the fifth insertion into a tree of capacity 4 that was empty has
\* completed.
C14_Witness ==
    /\ AtRest
    /\ tree.max_entries = 4
    /\ Len(inserted) = calls
    /\ calls = 5
    /\ tree.height = 2

RECURSIVE Ancestor(_, _, _)
Ancestor(ns, n, k) ==
    IF n = None \/ k = 0 THEN n ELSE Ancestor(ns, ns[n].parent, k - 1)

RECURSIVE FirstWith(_, _)
FirstWith(seq, priority) ==
    IF seq = << >> THEN << >>
    ELSE IF Head(seq)[1] = priority THEN Head(seq)
    ELSE FirstWith(Tail(seq), priority)

\* A pop call has returned a pair in this step.
Popped == returned'.op = "pop" /\ ~ returned'.raised

\* C17: in any interleaving of pushes and pops, a pop returns, among the waiting
\* pairs pushed with the priority it returns, the one pushed first.
C17_FifoTies ==
    [][Popped => FirstWith(waiting, returned'.priority)
                    = <<returned'.priority, returned'.item>>]_vars

\* C17's case: a pop has returned one item while a different item pushed later
\* with the same priority is still waiting, and a push came after another pop.
C17_Witness ==
    /\ returned.op = "pop"
    /\ ~ returned.raised
    /\ \E i \in 1 .. Len(waiting) :
          waiting[i][1] = returned.priority /\ waiting[i][2] # returned.item
    /\ queue.counter >= Len(waiting) + 2

\* C18: a pop on a non-empty queue removes one tuple and returns a pair that was
\* waiting and whose priority is at most the priority of every pair still in
\* the queue; the priorities popped since the last push are non-decreasing.
C18_MinOrder ==
    [][Popped
          => /\ <<returned'.priority, returned'.item>> \in Range(waiting)
             /\ len(queue') = len(queue) - 1
             /\ Len(waiting') = len(queue')
             /\ \A i \in 1 .. Len(waiting') : returned'.priority <= waiting'[i][1]
             /\ \A i \in 1 .. len(queue') : returned'.priority <= queue'.heap[i][1]
             /\ \A i, j \in 1 .. Len(run') : i < j => run'[i] <= run'[j]]_vars

\* C18's case: three pops in a row returned a negative, a zero and a positive
\* priority, and a pair is still in the queue.
C18_Witness ==
    /\ returned.op = "pop"
    /\ Len(run) = 3
    /\ run[1] < 0 /\ run[2] = 0 /\ run[3] > 0
    /\ waiting # << >>

\* C19: pop and peek on an empty queue raise IndexError and leave the queue
\* empty and its counter as it was.
C19_EmptyAccess ==
    [][(returned'.op \in {"pop", "peek"} /\ is_empty(queue))
          => /\ returned'.raised
             /\ is_empty(queue')
             /\ queue'.counter = queue.counter
             /\ waiting = << >>]_vars

\* C19's case: peek has raised on a queue that pushes filled and pops emptied.
C19_Witness ==
    /\ returned.op = "peek"
    /\ returned.raised
    /\ queue.counter >= 2
    /\ is_empty(queue)

\* C20: peek on a non-empty queue returns the pair that a pop of the queue
\* would return, and that the next pop does return, and leaves the contents,
\* the length and the counter of the queue as they were.
C20_Peek ==
    [][/\ (returned'.op = "peek" /\ ~ is_empty(queue))
             => /\ ~ returned'.raised
                /\ ~ pop(queue').raised
                /\ returned'.priority = pop(queue').priority
                /\ returned'.item = pop(queue').item
                /\ queue' = queue
                /\ len(queue') = len(queue)
       /\ (returned.op = "peek" /\ ~ returned.raised /\ returned'.op = "pop")
             => /\ ~ returned'.raised
                /\ returned'.priority = returned.priority
                /\ returned'.item = returned.item]_vars

\* C20's case: peek has returned from a queue whose two least pairs have the
\* same priority and different items.
C20_Witness ==
    /\ returned.op = "peek"
    /\ ~ returned.raised
    /\ len(queue) >= 2
    /\ queue.heap[1][1] = queue.heap[2][1]
    /\ queue.heap[1][3] # queue.heap[2][3]

\* The (priority, item) pairs of the tuples in the heap, in heap order.
HeapPairs == [i \in 1 .. Len(queue.heap) |-> <<queue.heap[i][1], queue.heap[i][3]>>]

\* C21: len(queue) is the number of pushes minus the number of pops that
\* returned a pair, is_empty() holds exactly when that is 0, the pairs in the
\* queue are the pairs pushed and not yet popped, and each pop returns one of
\* them, which is then no longer waiting: when the queue is empty every pushed
\* pair has been popped exactly once.
C21_Length ==
    [][/\ len(queue') = pushes' - pops'
       /\ is_empty(queue') <=> (pushes' - pops' = 0)
       /\ \A pair \in Range(waiting') \cup Range(HeapPairs') :
             Count(HeapPairs', pair) = Count(waiting', pair)
       /\ Popped => /\ Count(waiting', <<returned'.priority, returned'.item>>)
                         = Count(waiting, <<returned'.priority, returned'.item>>) - 1
                    /\ Len(waiting') = Len(waiting) - 1
       /\ is_empty(queue') => waiting' = << >>]_vars

\* C21's case: three pushes, two of them with the same priority, and three pops
\* have left the queue empty.
C21_Witness ==
    /\ returned.op = "pop"
    /\ ~ returned.raised
    /\ pushes = 3
    /\ pops = 3
    /\ run[1] = run[2]
    /\ is_empty(queue)

\* C22: on a tree into which nothing has been inserted, search_point and
\* search_rectangle return the empty list and leave the tree as it was, with
\* no root and height 0.
C22_EmptyTreeSearch ==
    [][(/\ result = Idle
        /\ result'.op \in {"search_point", "search_rectangle"}
        /\ inserted = << >>)
          => /\ result'.value = << >>
             /\ tree' = tree
             /\ tree'.root = None
             /\ tree'.height = 0
             /\ tree'.nodes = << >>]_vars

\* C22's case: search_rectangle over the whole plane of the model has returned
\* from a tree of capacity 4 with no insertions.
C22_Witness ==
    /\ result.op = "search_rectangle"
    /\ result.rect = Rectangle(0, 0, 10, 10)
    /\ inserted = << >>
    /\ tree.max_entries = 4

\* C23: is_full() holds exactly when the node holds more than max_entries
\* entries, so not at exactly max_entries; and every add_entry call appends one
\* entry, whatever the node already holds.
C23_IsFull ==
    [][(halves = << >> /\ halves' = << >> /\ arena' # arena)
          => LET before == arena[1].entries
                 after == arena'[1].entries
             IN  /\ Len(after) = Len(before) + 1
                 /\ SubSeq(after, 1, Len(before)) = before
                 /\ after[Len(after)].mbr \in EntryRects
                 /\ is_full(arena'[1]) <=> (Len(after) > arena[1].max_entries)
                 /\ Len(after) = arena[1].max_entries => ~ is_full(arena'[1])
                 /\ is_full(arena[1]) <=> (Len(before) > arena[1].max_entries)]_vars

\* C23's case: add_entry has appended to a leaf that held exactly max_entries
\* entries, which is full now.
C23_Witness ==
    /\ halves = << >>
    /\ arena[1].is_leaf
    /\ Len(arena[1].entries) = arena[1].max_entries + 1
    /\ is_full(arena[1])

\* The entry of node c in its parent is one of least enlargement for rect among
\* the parent's entries and, among those, of least area; and so on up to the
\* root.
RECURSIVE EnteredByRule(_, _, _)
EnteredByRule(ns, c, rect) ==
    IF ns[c].parent = None THEN TRUE
    ELSE LET entries == ns[ns[c].parent].entries
             k == FirstIndexOf(entries, 1, c)
         IN  /\ k # 0
             /\ \A i \in 1 .. Len(entries) :
                   /\ enlargement_needed(entries[k].mbr, rect)
                         <= enlargement_needed(entries[i].mbr, rect)
                   /\ enlargement_needed(entries[k].mbr, rect)
                         = enlargement_needed(entries[i].mbr, rect)
                         => area(entries[k].mbr) <= area(entries[i].mbr)
             /\ EnteredByRule(ns, ns[c].parent, rect)

InputRects == {Rectangle(input[1], input[2], input[1], input[2]) : input \in Inputs}

\* C24: choose_subtree on a leaf returns the leaf; from an internal root it
\* returns a leaf of the tree, and every node on the way down to it was
\* entered through an entry of least enlargement_needed(rect) and, among the
\* entries of that least enlargement, of least area.
C24_ChooseSubtree ==
    (AtRest /\ tree.root # None) =>
    \A rect \in InputRects :
        LET leaf == choose_subtree(tree.nodes, tree.root, rect)
        IN  /\ leaf \in TreeNodes
            /\ tree.nodes[leaf].is_leaf
            /\ tree.nodes[tree.root].is_leaf => leaf = tree.root
            /\ EnteredByRule(tree.nodes, leaf, rect)
            /\ Ancestor(tree.nodes, leaf, tree.height - 1) = tree.root

\* C24's case: in a tree of three levels the descent for some point passes a
\* node in which two entries need the same, least, enlargement and differ in
\* area, and the one of smaller area is not the first of them.
C24_Witness ==
    /\ AtRest
    /\ tree.height = 3
    /\ \E rect \in InputRects :
          LET leaf == choose_subtree(tree.nodes, tree.root, rect)
              entries == tree.nodes[tree.nodes[leaf].parent].entries
              k == FirstIndexOf(entries, 1, leaf)
          IN  \E i \in 1 .. Len(entries) :
                  /\ i < k
                  /\ enlargement_needed(entries[i].mbr, rect)
                        = enlargement_needed(entries[k].mbr, rect)
                  /\ area(entries[i].mbr) > area(entries[k].mbr)

\* Wasted area of grouping two rectangles.
Waste(a, b) == area(union(a, b)) - area(a) - area(b)

\* quadratic_split has been called on a node of max_entries + 1 entries.
OverflowSplit == halves # << >> /\ halves.count = arena[1].max_entries + 1

\* C25: the two seeds of the split of a node of max_entries + 1 entries are two
\* different entries of the node, the first entry of each result node, and no
\* pair of entries of the node wastes more area than they do.
C25_SeedSelection ==
    OverflowSplit =>
    LET entries == halves.entries
        seeds == halves.groups.seeds
    IN  /\ seeds[1] \in 1 .. Len(entries)
        /\ seeds[2] \in 1 .. Len(entries)
        /\ seeds[1] # seeds[2]
        /\ arena[halves.node1].entries[1] = entries[seeds[1]]
        /\ arena[halves.node2].entries[1] = entries[seeds[2]]
        /\ \A i, j \in 1 .. Len(entries) :
              i < j => Waste(entries[i].mbr, entries[j].mbr)
                          <= Waste(entries[seeds[1]].mbr, entries[seeds[2]].mbr)

\* The part of C25 that holds: the seeds are a pair of greatest waste whenever
\* some pair of entries wastes more than -1, as every pair of points does.
SeedsWhenWasteful ==
    OverflowSplit =>
    LET entries == halves.entries
        seeds == halves.groups.seeds
    IN  (\E i, j \in 1 .. Len(entries) :
            i < j /\ Waste(entries[i].mbr, entries[j].mbr) > -1)
        => \A i, j \in 1 .. Len(entries) :
              i < j => Waste(entries[i].mbr, entries[j].mbr)
                          <= Waste(entries[seeds[1]].mbr, entries[seeds[2]].mbr)

\* |enlargement of mbr1 - enlargement of mbr2| for taking in rect.
EnlargementGap(mbr1, mbr2, rect) ==
    LET enlarge1 == enlargement_needed(mbr1, rect)
        enlarge2 == enlargement_needed(mbr2, rect)
    IN  IF enlarge1 >= enlarge2 THEN enlarge1 - enlarge2 ELSE enlarge2 - enlarge1

\* The groups and running MBRs after round k of the loop: those the next round
\* saw, or those the loop ended with.
AfterStep(groups, k) ==
    IF k < Len(groups.steps) THEN groups.steps[k + 1]
    ELSE [group1 |-> groups.group1, group2 |-> groups.group2,
          group1_mbr |-> groups.group1_mbr, group2_mbr |-> groups.group2_mbr,
          remaining |-> << >>]

\* C26: in every free-choice round of a split exactly one undistributed entry
\* is moved, none of the undistributed entries has a greater |enlargement of
\* group 1's running MBR - enlargement of group 2's|, it goes to group 1
\* exactly when group 1 needs strictly less enlargement and to group 2
\* otherwise, and the running MBR of the group that got it becomes its union
\* with the entry's rectangle while the other group is left alone.
C26_Distribution ==
    halves # << >> =>
    \A k \in 1 .. Len(halves.groups.steps) :
        LET step == halves.groups.steps[k]
            after == AfterStep(halves.groups, k)
            entry == step.moved[1]
            enlarge1 == enlargement_needed(step.group1_mbr, entry.mbr)
            enlarge2 == enlargement_needed(step.group2_mbr, entry.mbr)
        IN  step.forced = 0 =>
            /\ Len(step.moved) = 1
            /\ entry \in Range(step.remaining)
            /\ \A other \in Range(step.remaining) :
                  EnlargementGap(step.group1_mbr, step.group2_mbr, other.mbr)
                      <= EnlargementGap(step.group1_mbr, step.group2_mbr, entry.mbr)
            /\ step.to = (IF enlarge1 < enlarge2 THEN 1 ELSE 2)
            /\ Len(after.remaining) = Len(step.remaining) - 1
            /\ Count(after.remaining, entry) = Count(step.remaining, entry) - 1
            /\ step.to = 1 =>
                  /\ after.group1 = Append(step.group1, entry)
                  /\ after.group1_mbr = union(step.group1_mbr, entry.mbr)
                  /\ after.group2 = step.group2
                  /\ after.group2_mbr = step.group2_mbr
            /\ step.to = 2 =>
                  /\ after.group2 = Append(step.group2, entry)
                  /\ after.group2_mbr = union(step.group2_mbr, entry.mbr)
                  /\ after.group1 = step.group1
                  /\ after.group1_mbr = step.group1_mbr

\* C26's case: the split of a node of max_entries + 1 entries had a free-choice
\* round that sent an entry to group 1, and one in which both groups needed
\* the same enlargement and the entry went to group 2.
C26_Witness ==
    /\ OverflowSplit
    /\ \E k \in 1 .. Len(halves.groups.steps) :
          halves.groups.steps[k].forced = 0 /\ halves.groups.steps[k].to = 1
    /\ \E k \in 1 .. Len(halves.groups.steps) :
          LET step == halves.groups.steps[k]
          IN  /\ step.forced = 0
              /\ step.to = 2
              /\ EnlargementGap(step.group1_mbr, step.group2_mbr, step.moved[1].mbr) = 0
              /\ Len(step.remaining) > 1

\* C27: in the split of a node of max_entries + 1 entries, a round that starts
\* with (undistributed entries + size of a group) = min_entries puts all the
\* undistributed entries into that group and is the last round, so that group
\* ends with exactly min_entries entries and the other keeps what it had; and
\* a free-choice round starts only where both groups would still reach
\* min_entries without the entry it moves.
C27_ForcedAssignment ==
    OverflowSplit =>
    \A k \in 1 .. Len(halves.groups.steps) :
        LET step == halves.groups.steps[k]
            undistributed == Len(step.remaining)
            min_entries == arena[1].min_entries
        IN  /\ undistributed + Len(step.group2) = min_entries
                  => /\ step.forced = 2
                     /\ step.moved = step.remaining
                     /\ k = Len(halves.groups.steps)
                     /\ halves.groups.group2 = step.group2 \o step.remaining
                     /\ halves.groups.group1 = step.group1
                     /\ Len(arena[halves.node2].entries) = min_entries
            /\ undistributed + Len(step.group1) = min_entries
                  => /\ step.forced = 1
                     /\ step.moved = step.remaining
                     /\ k = Len(halves.groups.steps)
                     /\ halves.groups.group1 = step.group1 \o step.remaining
                     /\ halves.groups.group2 = step.group2
                     /\ Len(arena[halves.node1].entries) = min_entries
            /\ step.forced = 0
                  => /\ undistributed + Len(step.group1) > min_entries
                     /\ undistributed + Len(step.group2) > min_entries
            /\ step.forced # 0 => k = Len(halves.groups.steps)

\* C27's case: the split of a node of max_entries + 1 entries ended with a
\* forced assignment of two entries to group 1.
C27_Witness ==
    /\ OverflowSplit
    /\ halves.groups.steps # << >>
    /\ LET last == halves.groups.steps[Len(halves.groups.steps)]
       IN  last.forced = 1 /\ Len(last.moved) = 2

\* C27 without its restriction to nodes of max_entries + 1 entries: on a node
\* of fewer entries a round can start with (undistributed + size of a group) =
\* min_entries while the other group is below min_entries, and is then a free
\* choice.
ForcedOnAnySplit ==
    halves # << >> =>
    \A k \in 1 .. Len(halves.groups.steps) :
        LET step == halves.groups.steps[k]
        IN  (\/ Len(step.remaining) + Len(step.group2) = arena[1].min_entries
             \/ Len(step.remaining) + Len(step.group1) = arena[1].min_entries)
            => step.forced # 0

\* C28: after quadratic_split every entry the node held is in the two result
\* nodes together exactly as often as it was in the node; the first result is
\* the node itself and starts with seed 1; the second is the one node created,
\* starts with seed 2 and has the is_leaf flag and max_entries of the first.
C28_SplitPartition ==
    halves # << >> =>
    LET group1 == arena[halves.node1].entries
        group2 == arena[halves.node2].entries
        children == IF arena[1].is_leaf THEN 0 ELSE halves.count
    IN  /\ \A e \in Range(halves.entries) \cup Range(group1) \cup Range(group2) :
              Count(group1, e) + Count(group2, e) = Count(halves.entries, e)
        /\ Len(group1) + Len(group2) = halves.count
        /\ halves.node1 = 1
        /\ group1[1] = halves.entries[halves.groups.seeds[1]]
        /\ halves.node2 = Len(arena)
        /\ Len(arena) = 1 + children + 1
        /\ group2[1] = halves.entries[halves.groups.seeds[2]]
        /\ arena[halves.node2].is_leaf = arena[halves.node1].is_leaf
        /\ arena[halves.node2].max_entries = arena[halves.node1].max_entries

\* C28's case: a leaf of max_entries + 1 entries, three of them with the same
\* rectangle and payload, has been split and both result nodes hold one of the
\* three.
C28_Witness ==
    /\ OverflowSplit
    /\ arena[1].is_leaf
    /\ \E e \in Range(halves.entries) :
          /\ Count(halves.entries, e) = 3
          /\ Count(arena[halves.node1].entries, e) >= 1
          /\ Count(arena[halves.node2].entries, e) >= 1

\* C29: after quadratic_split of an internal node every child held by the
\* first result node has that node as its parent, and every child held by the
\* new sibling has the sibling as its parent.
C29_SplitReparenting ==
    (halves # << >> /\ ~ arena[1].is_leaf) =>
    /\ \A i \in 1 .. Len(arena[halves.node1].entries) :
          arena[arena[halves.node1].entries[i].data].parent = halves.node1
    /\ \A i \in 1 .. Len(arena[halves.node2].entries) :
          arena[arena[halves.node2].entries[i].data].parent = halves.node2

\* C29's case: an internal node of capacity 4 holding 5 children has been split
\* and the new sibling holds at least two of them.
C29_Witness ==
    /\ OverflowSplit
    /\ ~ arena[1].is_leaf
    /\ arena[1].max_entries = 4
    /\ Len(arena[halves.node2].entries) >= 2

\* For node a and each of its ancestors that has a parent, the rectangle the
\* parent stores for it is its MBR.
RECURSIVE TightUpward(_, _)
TightUpward(ns, a) ==
    IF ns[a].parent = None THEN TRUE
    ELSE LET entries == ns[ns[a].parent].entries
             i == FirstIndexOf(entries, 1, a)
         IN  /\ i # 0
             /\ entries[i].mbr = mbr(ns[a])
             /\ TightUpward(ns, ns[a].parent)

\* C30: when an insert has called update_mbr_upward on its leaf, the leaf and
\* every ancestor of it that has a parent is stored in its parent with its
\* freshly computed MBR; the same holds after a call on any node of the tree,
\* and a call on the parentless root changes nothing.
C30_UpdateMbrUpward ==
    (AtRest /\ tree.root # None) =>
    /\ tree.visited # << >> => TightUpward(tree.nodes, tree.visited[1])
    /\ \A n \in TreeNodes :
          TightUpward(update_mbr_upward(tree.nodes, n), n)
    /\ update_mbr_upward(tree.nodes, tree.root) = tree.nodes

\* C30's case: the insertion just completed went into a leaf three levels
\* below the root without a split and enlarged the rectangle the root stores
\* for the leaf's grandparent; some other rectangle of the tree is stale.
C30_Witness ==
    /\ AtRest
    /\ tree.height = 4
    /\ tree.visited # << >>
    /\ tree.splits = << >>
    /\ ~ C4_TightBounds
    /\ LET input == inserted[Len(inserted)]
           top == Ancestor(tree.nodes, tree.visited[1], 2)
           entries == tree.nodes[tree.root].entries
           i == FirstIndexOf(entries, 1, top)
       IN  \/ entries[i].mbr.x_min = input[1]
           \/ entries[i].mbr.y_max = input[2]

\* The key knn gives a node pushed under rectangle rect is no greater than the
\* distance from (x, y) to any point stored below node n.
LowerBound(rect, n, x, y) ==
    \A s \in Range(Stored(tree.nodes, n)) :
        min_distance_to_point(rect, x, y) <= Dist2(s, x, y)

\* C31: in a tree built by insertions every key under which knn pushes a node
\* (the root under its MBR, a child under its entry rectangle in its parent;
\* with k above the population every node is pushed) is at most the distance
\* from the query to every point stored in that node's subtree, and the
\* entries knn reports come in non-decreasing distance.
C31_KnnLowerBound ==
    (AtRest /\ tree.root # None) =>
    \A q \in QueryPoints :
        /\ LowerBound(mbr(tree.nodes[tree.root]), tree.root, q[1], q[2])
        /\ \A n \in InternalNodes :
              \A i \in 1 .. Len(tree.nodes[n].entries) :
                  LowerBound(tree.nodes[n].entries[i].mbr,
                             tree.nodes[n].entries[i].data, q[1], q[2])
        /\ \A k \in Ks : NonDecreasing(knn(tree, q[1], q[2], k))

\* Rectangle a contains rectangle b.
Contains(a, b) ==
    /\ a.x_min <= b.x_min /\ b.x_max <= a.x_max
    /\ a.y_min <= b.y_min /\ b.y_max <= a.y_max

SharePoint(a, b) ==
    \E x \in PointCoords, y \in PointCoords :
        contains_point(a, x, y) /\ contains_point(b, x, y)

\* C33: intersects returns true exactly when the closed x-intervals overlap
\* and the closed y-intervals overlap, touching at an edge or a corner
\* included, and the result is the same with the rectangles exchanged.
C33_IntersectsClosedSymmetric ==
    answer.op = "intersects" =>
        /\ answer.value <=> (/\ Max(rect1.x_min, rect2.x_min) <= Min(rect1.x_max, rect2.x_max)
                              /\ Max(rect1.y_min, rect2.y_min) <= Min(rect1.y_max, rect2.y_max))
        /\ answer.value <=> SharePoint(rect1, rect2)
        /\ answer.value = intersects(rect2, rect1)

\* C33's case: intersects has returned true for two rectangles of positive
\* area that touch at one corner only.
C33_Witness ==
    /\ answer.op = "intersects"
    /\ answer.value
    /\ area(rect1) > 0
    /\ area(rect2) > 0
    /\ rect1.x_max = rect2.x_min
    /\ rect1.y_max = rect2.y_min

\* C34: union returns a rectangle that contains both operands and is contained
\* in every rectangle that contains both; it is the same with the operands
\* exchanged, the union of a rectangle with itself is that rectangle, and the
\* call leaves both operands as they were.
C34_UnionTightest ==
    [][(answer = Idle /\ answer'.op = "union") =>
          /\ Contains(answer'.value, rect1)
          /\ Contains(answer'.value, rect2)
          /\ \A c \in Rects :
                (Contains(c, rect1) /\ Contains(c, rect2)) => Contains(c, answer'.value)
          /\ answer'.value = union(rect2, rect1)
          /\ rect1 = rect2 => answer'.value = rect1
          /\ rect1' = rect1
          /\ rect2' = rect2]_vars

\* C34's case: union has returned a rectangle that is neither operand and is
\* larger than both together, for two rectangles of positive area that meet
\* at a corner only.
C34_Witness ==
    /\ answer.op = "union"
    /\ rect1.x_max = rect2.x_min
    /\ rect1.y_max = rect2.y_min
    /\ area(rect1) > 0
    /\ area(rect2) > 0
    /\ answer.value \notin {rect1, rect2}
    /\ area(answer.value) > area(rect1) + area(rect2)

Owners(n) ==
    {pi \in InternalNodes \X (1 .. Len(tree.nodes)) :
        /\ pi[2] <= Len(tree.nodes[pi[1]].entries)
        /\ tree.nodes[pi[1]].entries[pi[2]].data = n}

\* C36: after every completed insertion every node but the root is referred to
\* by exactly one entry of exactly one internal node, which is the node its
\* parent reference names; the root has no parent; the parent references lead
\* from every node to the root, in fewer steps than there are levels; and
\* every node ever created is in the tree.
C36_Ownership ==
    (AtRest /\ tree.root # None) =>
    /\ tree.nodes[tree.root].parent = None
    /\ Owners(tree.root) = {}
    /\ TreeNodes = 1 .. Len(tree.nodes)
    /\ \A n \in TreeNodes \ {tree.root} :
          /\ Cardinality(Owners(n)) = 1
          /\ \A pi \in Owners(n) : tree.nodes[n].parent = pi[1]
    /\ \A n \in TreeNodes :
          \E k \in 0 .. tree.height - 1 :
              /\ Ancestor(tree.nodes, n, k) = tree.root
              /\ \A j \in 0 .. k - 1 : Ancestor(tree.nodes, n, j) # tree.root

\* C36's case: the insertion just completed split a leaf and then its parent,
\* an internal node below the root, whose children were divided between it
\* and its new sibling.
C36_Witness ==
    /\ AtRest
    /\ tree.height >= 3
    /\ Len(tree.splits) = 2
    /\ Len(tree.visited) = 3
    /\ tree.visited[3] = tree.root

\* C37: after every completed insertion the rectangle of every entry of every
\* internal node contains every point stored in the leaves below the child
\* the entry refers to (the halves of the nodes split by the insertion are
\* such children).
C37_Covering ==
    AtRest =>
    \A n \in InternalNodes :
        \A i \in 1 .. Len(tree.nodes[n].entries) :
            \A s \in Range(Stored(tree.nodes, tree.nodes[n].entries[i].data)) :
                contains_point(tree.nodes[n].entries[i].mbr, s[1], s[2])

\* C38: search_point and search_rectangle leave the tree as it was (root,
\* height, every node's entries in their order and every parent reference),
\* so the same query made again on the tree returns the same result.
C38_QueriesReadOnly ==
    [][(result = Idle /\ result'.op \in {"search_point", "search_rectangle"})
          => /\ tree'.root = tree.root
             /\ tree'.height = tree.height
             /\ tree'.nodes = tree.nodes
             /\ tree' = tree
             /\ result'.op = "search_point"
                   => result'.value = search_point(tree', result'.x, result'.y)
             /\ result'.op = "search_rectangle"
                   => result'.value
                        = search_rectangle(tree', result'.rect.x_min, result'.rect.y_min,
                                           result'.rect.x_max, result'.rect.y_max)]_vars

\* C38's case: a search_rectangle on a tree of three levels has returned some
\* of the payloads and not all of them, several of them from one leaf.
C38_Witness ==
    /\ result.op = "search_rectangle"
    /\ tree.height = 3
    /\ Len(result.value) >= 2
    /\ Len(result.value) < Len(inserted)
    /\ \E n \in TreeNodes :
          /\ tree.nodes[n].is_leaf
          /\ Cardinality({i \in 1 .. Len(tree.nodes[n].entries) :
                 intersects(tree.nodes[n].entries[i].mbr, result.rect)}) >= 2

\* The sequence numbers of the tuples in a heap.
SequenceNumbers(heap) == {heap[i][2] : i \in 1 .. Len(heap)}

\* C39: every push raises the counter by exactly 1 and gives its tuple the
\* number of the pushes made before it; pop and peek leave the counter as it
\* is; so the tuples the heap holds have different sequence numbers, all
\* below the counter, and no two of them have the same (priority, sequence
\* number), which settles every comparison before the items.
C39_UniqueSequenceNumbers ==
    [][/\ returned'.op = "push" =>
             /\ queue'.counter = queue.counter + 1
             /\ SequenceNumbers(queue'.heap)
                   = SequenceNumbers(queue.heap) \cup {pushes}
       /\ returned'.op \in {"pop", "peek"} =>
             /\ queue'.counter = queue.counter
             /\ SequenceNumbers(queue'.heap) \subseteq SequenceNumbers(queue.heap)
       /\ queue'.counter = pushes'
       /\ Cardinality(SequenceNumbers(queue'.heap)) = Len(queue'.heap)
       /\ \A n \in SequenceNumbers(queue'.heap) : n < queue'.counter
       /\ \A i, j \in 1 .. Len(queue'.heap) :
             i # j => <<queue'.heap[i][1], queue'.heap[i][2]>>
                        # <<queue'.heap[j][1], queue'.heap[j][2]>>]_vars

\* C39's case: after a pop, a push has put a tuple into a heap that holds an
\* older tuple of the same priority and the same item.
C39_Witness ==
    /\ returned.op = "push"
    /\ pops >= 1
    /\ \E i, j \in 1 .. Len(queue.heap) :
          /\ queue.heap[i][2] = pushes - 1
          /\ queue.heap[j][2] < queue.heap[i][2]
          /\ queue.heap[i][1] = queue.heap[j][1]
          /\ queue.heap[i][3] = queue.heap[j][3]

====
